---- MODULE Spec2Model ----
(***************************************************************************)
(* A model of the per-call orchestrator (class App, src/unnamed/part_010   *)
(* lines 541-1236) and of the RTP receiver (class RtpServer) in its two    *)
(* revisions: src/rtp-server.js (the jitter buffer feeds the pre-buffer)   *)
(* and src/unnamed/part_008 (the socket handler feeds the pre-buffer; the  *)
(* revision whose methods the orchestrator calls).                         *)
(*                                                                         *)
(* Objects are records and methods are operators from record to record;   *)
(* an action applies the whole handler to the current state.               *)
(***************************************************************************)
EXTENDS Integers, Sequences, FiniteSets, TLC

VARIABLES
    domain,   \* input: the sequence numbers the sender uses in this run
    rtp,      \* the RtpServer object, with what it was observed to do
    cs,       \* the callState object and the closures of its handlers
    sw        \* the switch, the recognizer service and the caller

vars == <<domain, rtp, cs, sw>>

---------------------------------------------------------------------------
\* Bounds of the model
MaxPackets == 5      \* datagrams received in one run of a receiver specification
MaxCap == 2          \* largest pre-buffer capacity tried

\* Program constants
MAX_MISSES == 5
SeqSpace == 65536

NoFlush == <<-1>>

\* The sequence numbers of a run: around the 16-bit wrap, or scenario S5.
WrapDomain == {65534, 65535, 0, 1}
LossDomain == {100, 101, 107, 108}

\* msg.slice(12): the payload bytes of the datagram with sequence number s.
\* Odd sequence numbers carry a two-byte payload so that concatenation shows.
Payload(s) == IF s % 2 = 0 THEN <<s % 256>> ELSE <<s % 256, 255>>

\* Buffer.concat(list)
RECURSIVE Concat(_)
Concat(list) == IF list = <<>> THEN <<>> ELSE Head(list) \o Concat(Tail(list))

\* Math.min(...keys)
MinKey(keys) == CHOOSE k \in keys : \A j \in keys : k <= j

\* (a - nextSeq + 65536) % 65536
ForwardDiff(a, nextSeq) == (a - nextSeq + SeqSpace) % SeqSpace

\* Math.abs(a - nextSeq)
AbsDiff(a, nextSeq) == IF a >= nextSeq THEN a - nextSeq ELSE nextSeq - a

\* sortedKeys[0] of src/rtp-server.js: the keys' forward distances differ
NextAvailableModular(keys, nextSeq) ==
    CHOOSE k \in keys : \A j \in keys : ForwardDiff(k, nextSeq) <= ForwardDiff(j, nextSeq)

\* the candidates for sort(...)[0] of part_008: on a tie the first one in the
\* array order, which is the map's insertion order; any tied key can be it
NextAvailableAbs(keys, nextSeq) ==
    {k \in keys : \A j \in keys : AbsDiff(k, nextSeq) <= AbsDiff(j, nextSeq)}

\* a pre-buffer that drops the newest payload instead of the oldest
PushBoundedDropNewest(buf, p, size) ==
    LET b == Append(buf, p) IN IF Len(b) > size THEN SubSeq(b, 1, size) ELSE b

\* preBuffer.push(p); if (preBuffer.length > preBufferSize) preBuffer.shift()
PushBounded(buf, p, size) ==
    LET b == Append(buf, p) IN IF Len(b) > size THEN Tail(b) ELSE b

\* a threshold test that is off by one
SkipDueEarly(m) == m >= MAX_MISSES

\* the miss threshold test: missCount > MAX_MISSES
SkipDue(m) == m > MAX_MISSES

---------------------------------------------------------------------------
\* RtpServer: construction

NoSkip == [nextSeq |-> -1, keys |-> {}, to |-> -1]

\* new RtpServer(logger, preBufferSize): the fields, and nothing observed yet
NewRtpServer(size) ==
    [ jitterBuffer   |-> {},       \* this.jitterBuffer: the buffered sequence numbers
      lastPlayedSeq  |-> -1,
      isPlaying      |-> FALSE,
      missCount      |-> 0,        \* the missCount local of startPlayback's closure
      preBuffer      |-> <<>>,     \* a sequence of payloads
      preBufferSize  |-> size,
      isRecognizing  |-> FALSE,    \* src/rtp-server.js only
      isPreBuffering |-> FALSE,    \* part_008 only
      closed         |-> FALSE,    \* close() was called
      \* observations
      arrivals       |-> 0,        \* datagrams received
      emitted        |-> <<>>,     \* sequence numbers emitted as 'audioPacket'
      delivered      |-> <<>>,     \* sequence numbers handed on by the tick
      warnings       |-> 0,        \* logger.warn calls of the skip
      lastSkip       |-> NoSkip,   \* the last skip: expected, buffered, chosen
      preArrivals    |-> <<>>,     \* payloads received while pre-buffering
      flushed        |-> NoFlush,  \* what the flush returned
      lateArrival    |-> FALSE ]   \* a datagram was received after the first tick

\* the states of the call and of the switch while a receiver is studied alone
NoCall == [hc |-> "none"]
NoSwitch == [chan |-> "none"]

---------------------------------------------------------------------------
\* RtpServer of src/rtp-server.js

\* socket.on('message'): store the packet, start the playback loop
JbMessage(r, s) ==
    [r EXCEPT !.arrivals = @ + 1,
              !.jitterBuffer = @ \cup {s},
              !.isPlaying = TRUE,
              !.missCount = IF r.isPlaying THEN @ ELSE 0,
              !.lateArrival = (@ \/ r.delivered # <<>>)]

\* lastPlayedSeq after the "=== -1" initialisation at the head of a tick
InitLastPlayed(r) ==
    IF r.lastPlayedSeq = -1 THEN MinKey(r.jitterBuffer) - 1 ELSE r.lastPlayedSeq

\* the setInterval callback of startPlayback
JbTick(r) ==
    IF r.jitterBuffer = {} THEN r
    ELSE LET lp == InitLastPlayed(r)
             nextSeq == (lp + 1) % SeqSpace
         IN IF nextSeq \in r.jitterBuffer
            THEN [r EXCEPT !.missCount = 0,
                           !.emitted = IF r.isRecognizing THEN Append(@, nextSeq) ELSE @,
                           !.preBuffer = IF r.isRecognizing THEN @
                                         ELSE PushBounded(@, Payload(nextSeq), r.preBufferSize),
                           !.delivered = Append(@, nextSeq),
                           !.jitterBuffer = @ \ {nextSeq},
                           !.lastPlayedSeq = nextSeq]
            ELSE IF SkipDue(r.missCount + 1)
                 THEN LET k == NextAvailableModular(r.jitterBuffer, nextSeq)
                      IN [r EXCEPT !.warnings = @ + 1,
                                   !.lastSkip = [nextSeq |-> nextSeq,
                                                 keys |-> r.jitterBuffer, to |-> k],
                                   !.lastPlayedSeq = k - 1,
                                   !.missCount = 0]
                 ELSE [r EXCEPT !.lastPlayedSeq = lp,
                                !.missCount = @ + 1]

\* flushPreBuffer()
JbFlushPreBuffer(r) ==
    [r EXCEPT !.flushed = Concat(r.preBuffer),
              !.preBuffer = <<>>,
              !.isRecognizing = TRUE]

JbInit ==
    /\ domain \in {WrapDomain, LossDomain}
    /\ \E size \in 1..MaxCap : rtp = NewRtpServer(size)
    /\ cs = NoCall
    /\ sw = NoSwitch

JbReceive ==
    /\ rtp.arrivals < MaxPackets
    /\ \E s \in domain : rtp' = JbMessage(rtp, s)
    /\ UNCHANGED <<domain, cs, sw>>

JbPlay ==
    /\ rtp.isPlaying
    /\ rtp.jitterBuffer # {}
    /\ rtp' = JbTick(rtp)
    /\ UNCHANGED <<domain, cs, sw>>

JbFlush ==
    /\ ~rtp.isRecognizing
    /\ rtp' = JbFlushPreBuffer(rtp)
    /\ UNCHANGED <<domain, cs, sw>>

JbNext == JbReceive \/ JbPlay \/ JbFlush

JitterSpec == JbInit /\ [][JbNext]_vars

---------------------------------------------------------------------------
\* RtpServer of src/unnamed/part_008

\* socket.on('message'): while pre-buffering the payload goes straight to the
\* pre-buffer, otherwise into the jitter buffer
PbMessage(r, s, payload) ==
    IF r.isPreBuffering
    THEN [r EXCEPT !.arrivals = @ + 1,
                   !.preBuffer = PushBounded(@, payload, r.preBufferSize),
                   !.preArrivals = Append(@, payload)]
    ELSE [r EXCEPT !.arrivals = @ + 1,
                   !.jitterBuffer = @ \cup {s},
                   !.isPlaying = TRUE,
                   !.missCount = IF r.isPlaying THEN @ ELSE 0,
                   !.lateArrival = (@ \/ r.delivered # <<>>)]

\* the setInterval callback of startPlayback: the receivers it can leave
PbTick(r) ==
    IF r.jitterBuffer = {} THEN {r}
    ELSE LET lp == InitLastPlayed(r)
             nextSeq == (lp + 1) % SeqSpace
         IN IF nextSeq \in r.jitterBuffer
            THEN {[r EXCEPT !.missCount = 0,
                            !.emitted = Append(@, nextSeq),
                            !.delivered = Append(@, nextSeq),
                            !.jitterBuffer = @ \ {nextSeq},
                            !.lastPlayedSeq = nextSeq]}
            ELSE IF SkipDue(r.missCount + 1)
                 THEN {[r EXCEPT !.warnings = @ + 1,
                                 !.lastSkip = [nextSeq |-> nextSeq,
                                               keys |-> r.jitterBuffer, to |-> k],
                                 !.lastPlayedSeq = k - 1,
                                 !.missCount = 0] :
                          k \in NextAvailableAbs(r.jitterBuffer, nextSeq)}
                 ELSE {[r EXCEPT !.lastPlayedSeq = lp,
                                 !.missCount = @ + 1]}

\* startPreBuffering(bufferSize)
StartPreBuffering(r, bufferSize) ==
    [r EXCEPT !.preBufferSize = bufferSize,
              !.preBuffer = <<>>,
              !.isPreBuffering = TRUE,
              !.preArrivals = <<>>]

\* stopPreBufferingAndFlush(): the receiver it leaves; r.flushed is what it returns
StopPreBufferingAndFlush(r) ==
    [r EXCEPT !.isPreBuffering = FALSE,
              !.flushed = Concat(r.preBuffer),
              !.preBuffer = <<>>]

\* a close() that leaves the socket open
RtpCloseLeavesOpen(r) == r

\* close()
RtpClose(r) == [r EXCEPT !.closed = TRUE]

\* close() calls socket.close() whenever this.socket is set, and it is never
\* unset: on a socket that was closed before, dgram throws "Not running"
RtpCloseThrows(r) == r.closed

PbInit ==
    /\ domain \in {WrapDomain, LossDomain}
    /\ rtp = NewRtpServer(0)
    /\ cs = NoCall
    /\ sw = NoSwitch

PbReceive ==
    /\ rtp.arrivals < MaxPackets
    /\ \E s \in domain : rtp' = PbMessage(rtp, s, Payload(s))
    /\ UNCHANGED <<domain, cs, sw>>

PbPlay ==
    /\ rtp.isPlaying
    /\ rtp.jitterBuffer # {}
    /\ rtp' \in PbTick(rtp)
    /\ UNCHANGED <<domain, cs, sw>>

\* the orchestrator arms VAD once (enableTalkDetection) ...
PbStart ==
    /\ ~rtp.isPreBuffering /\ rtp.flushed = NoFlush /\ rtp.preArrivals = <<>>
    /\ \E n \in 0..MaxCap : rtp' = StartPreBuffering(rtp, n)
    /\ UNCHANGED <<domain, cs, sw>>

\* ... and flushes on the one-shot voice-start
PbStop ==
    /\ rtp.isPreBuffering
    /\ rtp' = StopPreBufferingAndFlush(rtp)
    /\ UNCHANGED <<domain, cs, sw>>

PbNext == PbReceive \/ PbPlay \/ PbStart \/ PbStop

PreBufSpec == PbInit /\ [][PbNext]_vars

---------------------------------------------------------------------------
\* The call orchestrator (class App of src/unnamed/part_010, lines 541-1236)
\*
\* One call is followed from StasisStart to the end of its cleanup.  Every
\* handler runs to its next await in one step; what follows the await is a
\* later step.  The world a handler sees and changes is the record
\* [c: callState and closures, r: the RtpServer, s: switch, recognizer, caller].

\* Bounds of the call model
MaxChunks == 2       \* chunks the synthesis stream delivers
MaxDigits == 2       \* keypad digits the caller presses
MaxFrames == 2       \* RTP frames received after VAD is armed
MaxTalks == 2        \* times the caller starts talking

NoText == "none"
Texts == {"", "hola"}   \* what the recognizer can return as final text

\* G.711 mu-law decoding of one byte to a signed 16-bit sample
UlawSample(b) ==
    LET u == 255 - b
        exponent == (u \div 16) % 8
        mantissa == u % 16
        magnitude == ((mantissa * 8 + 132) * (2 ^ exponent)) - 132
    IN IF u >= 128 THEN -magnitude ELSE magnitude

\* ulawToPcm(buffer): two little-endian bytes per input byte
RECURSIVE UlawToPcm(_)
UlawToPcm(bytes) ==
    IF bytes = <<>> THEN <<>>
    ELSE LET v == (UlawSample(Head(bytes)) + 65536) % 65536
         IN <<v % 256, v \div 256>> \o UlawToPcm(Tail(bytes))

\* the payload of the f-th frame the switch sends
FramePayload(f) == <<f>>

\* callState as handleCall builds it (lines 731-756), the closure variables of
\* streamTtsAudio (934-938) and the positions of the asynchronous functions
NewCallState(vadMode) ==
    [ hc          |-> "getVars",   \* handleCall: awaiting getDialplanVariables
      registered  |-> FALSE,       \* activeCalls.has(channel.id)
      config      |-> [vadMode |-> vadMode,
                       noInput |-> TRUE],  \* app.timeouts.noInput > 0
      userBridge  |-> FALSE, snoopChannel |-> FALSE, snoopBridge |-> FALSE,
      externalMediaChannel |-> FALSE, rtpServer |-> FALSE,
      sttPushStream   |-> FALSE,
      isRecognizing   |-> FALSE,
      finalTranscript |-> "",
      playbackId      |-> 0,
      recPromise      |-> "none",  \* recognitionPromise: none, pending, resolved
      recValue        |-> NoText,  \* the value it resolved with
      isPlayingPrompt |-> FALSE,
      timerSession |-> FALSE, timerNoInput |-> FALSE, timerDtmf |-> FALSE,
      dtmfDigits      |-> <<>>,
      recognitionMode |-> "voice",
      sttAudioChunks  |-> <<>>,
      \* listeners on mainChannel
      lsTalkStart |-> FALSE, lsTalkFinish |-> FALSE, lsDtmf |-> FALSE,
      \* streamTtsAudio
      textMissing |-> FALSE,       \* TEXT_TO_SPEAK had no value
      tts |-> "none",              \* none, synth, streaming, done, failed
      chunkQueue |-> <<>>, streamFinished |-> FALSE, processing |-> FALSE,
      vadEnabled |-> FALSE,
      pq |-> "idle",               \* processQueue: idle, saving (await saveTempAudio)
      pqChunk |-> 0,
      ttsEnd |-> "none",           \* 'end' handler: none, saving, done
      vadTimer |-> FALSE,          \* setTimeout(enableTalkDetection) pending
      \* onTalkingStarted: idle, stopping, opening, recognizing, done
      ts |-> "idle",
      preBufferedAudio |-> <<>>,
      \* onDtmfReceived of the first digit: idle, stopping, done
      d1 |-> "idle", d1Digit |-> 0,
      \* continueInDialplan invocations, in the order they were made
      fin |-> <<>>,
      \* cleanup: idle, snoopHangup, extHangup, userBridgeDestroy, snoopBridgeDestroy, done,
      \* threw (rtpServer.close() threw and the promise of cleanup is rejected)
      cl |-> "idle",
      \* observations
      cleanupRuns |-> 0,           \* calls of cleanup
      tdCalls |-> 0,               \* calls of enableTalkDetection
      voiceDuringPrompt |-> FALSE, \* voice-start was processed with chunks queued or playing
      voicePlayback |-> 0,         \* the chunk that was playing then
      voiceStartSeen |-> FALSE,    \* onTalkingStarted has run
      playAfterVoice |-> FALSE,    \* a chunk was started after onTalkingStarted ran
      openAfterDigit |-> FALSE,    \* setupStt ran in dtmf mode
      finWhileDtmfTimer |-> FALSE, \* continueInDialplan was entered with timers.dtmf pending
      expiredLive |-> FALSE        \* the session timer hung up with the recognizer running
    ]

\* What the caller of one call does: whether the caller may hang up (and the
\* session and no-input timers may expire), how often the caller starts
\* talking, how many digits are pressed, how many RTP frames arrive once
\* VAD is armed
SpeaksOnce == [hangup |-> TRUE, talks |-> 1, digits |-> 0, frames |-> 0]

Callers ==
    { [hangup |-> TRUE,  talks |-> 0,        digits |-> 0,         frames |-> 0],
      SpeaksOnce,
      [hangup |-> FALSE, talks |-> MaxTalks, digits |-> 0,         frames |-> MaxFrames],
      [hangup |-> FALSE, talks |-> 1,        digits |-> MaxDigits, frames |-> 0] }

\* the switch, the recognizer service and the caller
NewSwitch(caller) ==
    [ caller |-> caller,
      chan |-> "up",               \* the channel is in the application: up, gone
      stasisEndSeen |-> FALSE,     \* StasisEnd was delivered
      talkDetect |-> FALSE,        \* TALK_DETECT(set) was written
      talking |-> FALSE,
      talkStarts |-> 0,            \* ChannelTalkingStarted events
      digitsPressed |-> 0,
      chunksLeft |-> 0,            \* chunks the synthesis stream still holds
      chunksMade |-> 0,
      activePlayback |-> 0,        \* the chunk being played on the user bridge
      tempFiles |-> {},            \* chunks whose temporary WAV file is on disk
      stopRequests |-> {},         \* playback ids playbacks.stop was called with
      played |-> <<>>,             \* chunks whose play was requested, in order
      playOverlap |-> FALSE,       \* a play was requested during another playback
      deleted |-> <<>>,            \* chunks cleanupTempAudio was called for, in order
      rec |-> "none",              \* recognizer: none, starting, running, ended
      recStopAsked |-> FALSE,      \* stopContinuousRecognitionAsync() was called on it
      callStopAsked |-> FALSE,     \* ... by onTalkingFinished, onDtmfReceived or cleanup
      recFault |-> "none",         \* the recognizer failed: none, start, canceled
      sttOpens |-> 0,              \* calls of startContinuousRecognition
      pushWritten |-> <<>>,        \* bytes written to the push stream
      writeAfterStop |-> FALSE,    \* ... some of them after a stop was asked
      writeAfterEnd |-> FALSE,     \* ... or after the session ended or failed
      dueFrames |-> <<>>,          \* payloads emitted after the flush, before any stop request
      chanVars |-> [TRANSCRIPT |-> NoText, DTMF_RESULT |-> <<0>>, RECOGNITION_MODE |-> NoText],
      continueCount |-> 0,         \* continueInDialplan requests the switch accepted
      continueUnpaired |-> FALSE,  \* one of them came without its outcome pair written
      interactions |-> <<>>,       \* the records given to db.Interaction.create
      userBridgeUp |-> FALSE, snoopBridgeUp |-> FALSE,
      snoopUp |-> FALSE, extMediaUp |-> FALSE
    ]

World == [c |-> cs, r |-> rtp, s |-> sw]

\* a request on the main channel is accepted while the channel is in the application
ChanOk(w) == w.s.chan = "up"

---------------------------------------------------------------------------
\* enableTalkDetection (lines 1019-1146): pre-buffering, no-input timer,
\* listeners, TALK_DETECT(set)
EnableTalkDetection(w) ==
    [w EXCEPT !.r = StartPreBuffering(@, MaxCap),
              !.c.timerNoInput = (@ \/ w.c.config.noInput),
              !.c.lsTalkStart = TRUE,
              !.c.lsTalkFinish = TRUE,
              !.c.lsDtmf = TRUE,
              !.c.tdCalls = @ + 1,
              !.s.talkDetect = (@ \/ ChanOk(w))]

\* a stream end that arms talk detection in either mode
ResolveStreamEndArmsAlways(w) ==
    IF w.c.tts # "streaming" THEN w
    ELSE [EnableTalkDetection(w) EXCEPT !.c.tts = "done",
                                        !.c.isPlayingPrompt = FALSE]

\* what follows "await streamEndPromise" in streamTtsAudio (lines 1004-1016)
ResolveStreamEnd(w) ==
    IF w.c.tts # "streaming" THEN w
    ELSE LET w1 == IF w.c.config.vadMode = "after_prompt_end"
                   THEN EnableTalkDetection(w) ELSE w
         IN [w1 EXCEPT !.c.tts = "done", !.c.isPlayingPrompt = FALSE]

\* processQueue without the test of its 'processing' flag
ProcessQueueUnserialized(w) ==
    IF w.c.chunkQueue = <<>> \/ ~w.c.isPlayingPrompt
    THEN IF w.c.streamFinished /\ w.c.chunkQueue = <<>> THEN ResolveStreamEnd(w) ELSE w
    ELSE LET arm == ~w.c.vadEnabled /\ w.c.config.vadMode = "after_prompt_start"
         IN [w EXCEPT !.c.processing = TRUE,
                      !.c.vadEnabled = (@ \/ arm),
                      !.c.vadTimer = (@ \/ arm),
                      !.c.pqChunk = Head(w.c.chunkQueue),
                      !.c.chunkQueue = Tail(@),
                      !.c.pq = "saving"]

\* processQueue up to its await of saveTempAudio (lines 940-957)
ProcessQueue(w) ==
    IF w.c.processing \/ w.c.chunkQueue = <<>> \/ ~w.c.isPlayingPrompt
    THEN IF w.c.streamFinished /\ w.c.chunkQueue = <<>> THEN ResolveStreamEnd(w) ELSE w
    ELSE LET arm == ~w.c.vadEnabled /\ w.c.config.vadMode = "after_prompt_start"
         IN [w EXCEPT !.c.processing = TRUE,
                      !.c.vadEnabled = (@ \/ arm),
                      !.c.vadTimer = (@ \/ arm),
                      !.c.pqChunk = Head(w.c.chunkQueue),
                      !.c.chunkQueue = Tail(@),
                      !.c.pq = "saving"]

\* processQueue after saveTempAudio when userBridge.play rejects: the catch
\* of lines 971-974
ProcessQueuePlayFails(w) ==
    [w EXCEPT !.c.pq = "idle",
              !.c.playbackId = w.c.pqChunk,
              !.s.tempFiles = @ \cup {w.c.pqChunk},
              !.c.processing = FALSE]

\* processQueue after saveTempAudio, deleting the file as soon as the play
\* has been requested
ProcessQueueSavedDeletesAtOnce(w) ==
    IF w.s.userBridgeUp
    THEN [w EXCEPT !.c.pq = "idle",
                   !.c.playbackId = w.c.pqChunk,
                   !.s.deleted = Append(@, w.c.pqChunk),
                   !.c.playAfterVoice = (@ \/ w.c.voiceStartSeen),
                   !.s.playOverlap = (@ \/ w.s.activePlayback # 0),
                   !.s.activePlayback = w.c.pqChunk,
                   !.s.played = Append(@, w.c.pqChunk)]
    ELSE ProcessQueuePlayFails(w)

\* processQueue after saveTempAudio (lines 958-974): the playback id is
\* assigned and the play requested; a play that fails ends in the catch
ProcessQueueSaved(w) ==
    IF w.s.userBridgeUp
    THEN [w EXCEPT !.c.pq = "idle",
                   !.c.playbackId = w.c.pqChunk,
                   !.s.tempFiles = @ \cup {w.c.pqChunk},
                   !.c.playAfterVoice = (@ \/ w.c.voiceStartSeen),
                   !.s.playOverlap = (@ \/ w.s.activePlayback # 0),
                   !.s.activePlayback = w.c.pqChunk,
                   !.s.played = Append(@, w.c.pqChunk)]
    ELSE ProcessQueuePlayFails(w)

\* the PlaybackFinished listener of a chunk (lines 962-968)
OnPlaybackFinished(w) ==
    ProcessQueue([w EXCEPT !.c.playbackId = 0,
                           !.s.tempFiles = @ \ {w.s.activePlayback},
                           !.s.deleted = Append(@, w.s.activePlayback),
                           !.c.processing = FALSE,
                           !.s.activePlayback = 0])

\* ttsAudioStream.on('data') (lines 977-983)
OnTtsData(w) ==
    LET k == w.s.chunksMade + 1
    IN ProcessQueue([w EXCEPT !.c.chunkQueue = Append(@, k),
                              !.s.chunksMade = k,
                              !.s.chunksLeft = @ - 1])

\* ttsAudioStream.on('end') up to its await of saveFinalAudio (lines 985-996)
OnTtsEnd(w) == [w EXCEPT !.c.streamFinished = TRUE, !.c.ttsEnd = "saving"]

\* the end handler resolving the stream end without the test of line 999
OnTtsEndSavedEarly(w) == ResolveStreamEnd([w EXCEPT !.c.ttsEnd = "done"])

\* ... and after it (lines 997-1001)
OnTtsEndSaved(w) ==
    LET w1 == [w EXCEPT !.c.ttsEnd = "done"]
    IN IF ~w.c.processing /\ w.c.chunkQueue = <<>> THEN ResolveStreamEnd(w1) ELSE w1

---------------------------------------------------------------------------
\* continueInDialplan (lines 1167-1202), one record per invocation:
\* pc: saveAudio (await saveFinalAudio), set1, set2 (await setChannelVar), done

\* the values of the column recognitionMode
\* (src/database/models/interaction.js line 31)
RecognitionModes == {"VOICE", "DTMF", "NO_INPUT", "TIMEOUT", "ERROR"}

\* the first setChannelVar, after saveInteraction was started with the mode
\* of the call state (lines 1148-1160, 1185-1193)
FinIssueResult(w, i) ==
    LET mode == w.c.recognitionMode
        w1 == [w EXCEPT !.s.interactions =
                            Append(@, [recognitionMode |-> mode]),
                        !.c.fin[i].mode = mode]
    IN IF ~ChanOk(w) THEN [w1 EXCEPT !.c.fin[i].pc = "done"]
       ELSE IF mode = "dtmf"
            THEN [w1 EXCEPT !.c.fin[i].pc = "set1",
                            !.s.chanVars.DTMF_RESULT = w.c.dtmfDigits]
            ELSE [w1 EXCEPT !.c.fin[i].pc = "set1",
                            !.s.chanVars.TRANSCRIPT = w.c.finalTranscript]

\* the second setChannelVar (lines 1191, 1194)
FinIssueMode(w, i) ==
    IF ~ChanOk(w) THEN [w EXCEPT !.c.fin[i].pc = "done"]
    ELSE [w EXCEPT !.c.fin[i].pc = "set2",
                   !.s.chanVars.RECOGNITION_MODE =
                       IF w.c.fin[i].mode = "dtmf" THEN "DTMF" ELSE "VOICE"]

\* the outcome pair the switch holds
PairWritten(s) ==
    \/ s.chanVars.TRANSCRIPT # NoText /\ s.chanVars.RECOGNITION_MODE = "VOICE"
    \/ s.chanVars.DTMF_RESULT # <<0>> /\ s.chanVars.RECOGNITION_MODE = "DTMF"

\* mainChannel.continueInDialplan() (line 1196): the channel leaves the application
FinIssueContinue(w, i) ==
    IF ~ChanOk(w) THEN [w EXCEPT !.c.fin[i].pc = "done"]
    ELSE [w EXCEPT !.c.fin[i].pc = "done",
                   !.c.fin[i].continued = TRUE,
                   !.s.continueCount = @ + 1,
                   !.s.continueUnpaired = (@ \/ ~PairWritten(w.s)),
                   !.s.chan = "gone"]

\* the call of continueInDialplan up to its first await (lines 1167-1182)
ContinueInDialplan(w, src) ==
    LET i == Len(w.c.fin) + 1
        w1 == [w EXCEPT !.c.fin = Append(@, [pc |-> "saveAudio", src |-> src, mode |-> "none",
                                               continued |-> FALSE,
                                               afterDigit |-> w.c.recognitionMode = "dtmf"]),
                        !.c.finWhileDtmfTimer = (@ \/ w.c.timerDtmf)]
    IN IF w.c.sttAudioChunks # <<>> THEN w1 ELSE FinIssueResult(w1, i)

\* an invocation resumes after its await
FinResume(w, i) ==
    CASE w.c.fin[i].pc = "saveAudio" -> FinIssueResult(w, i)
      [] w.c.fin[i].pc = "set1" -> FinIssueMode(w, i)
      [] w.c.fin[i].pc = "set2" -> FinIssueContinue(w, i)
      [] OTHER -> w

---------------------------------------------------------------------------
\* the recognizer adapter as the orchestrator uses it (setupStt, lines 795-822)

\* recognitionResolve(text), and what follows "await callState.recognitionPromise"
\* in onTalkingStarted when it waits there (lines 1074-1078)
AfterRecognition(w) ==
    ContinueInDialplan([w EXCEPT !.c.finalTranscript = w.c.recValue,
                                 !.c.ts = "done"], "voice")

RecognitionResolve(w, text) ==
    IF w.c.recPromise # "pending" THEN w
    ELSE LET w1 == [w EXCEPT !.c.recPromise = "resolved", !.c.recValue = text]
         IN IF w.c.ts = "recognizing" THEN AfterRecognition(w1) ELSE w1

\* azureService.stopContinuousRecognition(): a live recognizer is asked to stop
StopRecognition(s) ==
    [s EXCEPT !.recStopAsked = (@ \/ s.rec \in {"starting", "running"}),
              !.callStopAsked = (@ \/ s.rec \in {"starting", "running"})]

\* the stopContinuousRecognition of the canceled callback
\* (src/azure-service.js line 128)
StopOnCanceled(s) ==
    [s EXCEPT !.recStopAsked = (@ \/ s.rec \in {"starting", "running"})]

\* onTalkingStarted from the flush to the await of setupStt (lines 1053-1062)
FlushAndOpen(w) ==
    LET r1 == StopPreBufferingAndFlush(w.r)
        pre == r1.flushed
    IN [w EXCEPT !.r = r1,
                 !.c.preBufferedAudio = pre,
                 !.c.sttAudioChunks = IF pre # <<>> THEN Append(@, pre) ELSE @,
                 !.c.recPromise = "pending",
                 !.c.openAfterDigit = (@ \/ w.c.recognitionMode = "dtmf"),
                 !.c.ts = "opening",
                 !.s.rec = "starting",
                 !.s.sttOpens = @ + 1]

\* a talk-start handler that stays subscribed
OnTalkingStartedKeepListener(w) ==
    FlushAndOpen([w EXCEPT !.c.timerNoInput = FALSE, !.c.voiceStartSeen = TRUE])

\* a talk-start handler that leaves the no-input timer armed
OnTalkingStartedKeepsTimer(w) ==
    LET w1 == [w EXCEPT !.c.lsTalkStart = FALSE, !.c.voiceStartSeen = TRUE]
    IN IF w.c.isPlayingPrompt /\ w.c.playbackId # 0
       THEN [w1 EXCEPT !.c.isPlayingPrompt = FALSE,
                       !.s.stopRequests = @ \cup {w.c.playbackId},
                       !.c.ts = "stopping"]
       ELSE FlushAndOpen(w1)

\* onTalkingStarted up to its first await (lines 1034-1051)
OnTalkingStarted(w) ==
    LET w1 == [w EXCEPT !.c.timerNoInput = FALSE,
                        !.c.lsTalkStart = FALSE,
                        !.c.voiceStartSeen = TRUE,
                        !.c.voicePlayback = w.s.activePlayback,
                        !.c.voiceDuringPrompt =
                            (w.c.chunkQueue # <<>> \/ w.c.pq = "saving" \/ w.s.activePlayback # 0)]
    IN IF w.c.isPlayingPrompt /\ w.c.playbackId # 0
       THEN [w1 EXCEPT !.c.isPlayingPrompt = FALSE,
                       !.s.stopRequests = @ \cup {w.c.playbackId},
                       !.c.ts = "stopping"]
       ELSE FlushAndOpen(w1)

\* the audioStreamReady listener and what follows "await this.setupStt"
\* (lines 803-806, 1064-1074)
OnAudioStreamReady(w) ==
    LET pre == w.c.preBufferedAudio
        w1 == [w EXCEPT !.c.sttPushStream = TRUE,
                        !.s.pushWritten = IF pre # <<>> THEN @ \o UlawToPcm(pre) ELSE @,
                        !.s.writeAfterStop = (@ \/ (pre # <<>> /\ w.s.callStopAsked)),
                        !.c.isRecognizing = TRUE,
                        !.c.ts = "recognizing"]
    IN IF w.c.recPromise = "resolved" THEN AfterRecognition(w1) ELSE w1

\* onTalkingFinished (lines 1081-1089)
OnTalkingFinished(w) ==
    IF w.c.isRecognizing
    THEN [w EXCEPT !.c.isRecognizing = FALSE, !.s = StopRecognition(@)]
    ELSE w

\* the recognizer session has ended or has reported an error
SessionOver(s) == s.rec \in {"ended", "failed"} \/ s.recFault # "none"

\* the audioPacket listener (lines 837-844)
OnAudioPacket(w, audio) ==
    LET w1 == IF w.r.flushed # NoFlush /\ ~w.s.recStopAsked
              THEN [w EXCEPT !.s.dueFrames = Append(@, audio)] ELSE w
    IN IF w.c.isRecognizing /\ w.c.sttPushStream
       THEN [w1 EXCEPT !.c.sttAudioChunks = Append(@, audio),
                       !.s.pushWritten = @ \o UlawToPcm(audio),
                       !.s.writeAfterStop = (@ \/ w.s.callStopAsked),
                       !.s.writeAfterEnd = (@ \/ SessionOver(w.s))]
       ELSE w1

---------------------------------------------------------------------------
\* onDtmfReceived (lines 1091-1127)

\* "this logic runs for every digit": append, re-arm the completion timer
DtmfAppend(w, digit) ==
    [w EXCEPT !.c.dtmfDigits = Append(@, digit), !.c.timerDtmf = TRUE]

OnDtmfReceived(w, digit) ==
    IF w.c.recognitionMode = "voice"
    THEN LET w1 == [w EXCEPT !.c.recognitionMode = "dtmf",
                             !.c.timerNoInput = FALSE,
                             !.c.lsTalkStart = FALSE,
                             !.s = IF w.c.isRecognizing THEN StopRecognition(@) ELSE @,
                             !.c.isRecognizing = FALSE]
         IN IF w.c.isPlayingPrompt /\ w.c.playbackId # 0
            THEN [w1 EXCEPT !.c.isPlayingPrompt = FALSE,
                            !.s.stopRequests = @ \cup {w.c.playbackId},
                            !.c.d1 = "stopping",
                            !.c.d1Digit = digit]
            ELSE DtmfAppend([w1 EXCEPT !.c.d1 = "done"], digit)
    ELSE DtmfAppend(w, digit)

---------------------------------------------------------------------------
\* cleanup (lines 1204-1235) and the StasisEnd handler (lines 565-572)

\* cleanup from position pc on, up to its next await
RECURSIVE CleanupFrom(_, _)
CleanupFrom(w, pc) ==
    CASE pc = "snoopHangup" ->
            IF w.c.snoopChannel
            THEN [w EXCEPT !.c.cl = "snoopHangup", !.s.snoopUp = FALSE]
            ELSE CleanupFrom(w, "extHangup")
      [] pc = "extHangup" ->
            IF w.c.externalMediaChannel
            THEN [w EXCEPT !.c.cl = "extHangup", !.s.extMediaUp = FALSE]
            ELSE CleanupFrom(w, "userBridgeDestroy")
      [] pc = "userBridgeDestroy" ->
            IF w.c.userBridge
            THEN [w EXCEPT !.c.cl = "userBridgeDestroy", !.s.userBridgeUp = FALSE]
            ELSE CleanupFrom(w, "snoopBridgeDestroy")
      [] pc = "snoopBridgeDestroy" ->
            IF w.c.snoopBridge
            THEN [w EXCEPT !.c.cl = "snoopBridgeDestroy", !.s.snoopBridgeUp = FALSE]
            ELSE CleanupFrom(w, "close")
      [] OTHER ->
            IF w.c.rtpServer /\ RtpCloseThrows(w.r)
            THEN [w EXCEPT !.c.cl = "threw"]
            ELSE [w EXCEPT !.c.cl = "done",
                           !.r = IF w.c.rtpServer THEN RtpClose(@) ELSE @,
                           !.s = StopRecognition(@)]

NextCleanupPc(pc) ==
    CASE pc = "snoopHangup" -> "extHangup"
      [] pc = "extHangup" -> "userBridgeDestroy"
      [] pc = "userBridgeDestroy" -> "snoopBridgeDestroy"
      [] OTHER -> "close"

\* cleanup(callState) up to its first await
Cleanup(w) ==
    CleanupFrom([w EXCEPT !.c.cleanupRuns = @ + 1,
                          !.c.timerSession = FALSE,
                          !.c.timerNoInput = FALSE,
                          !.c.timerDtmf = FALSE,
                          !.c.lsTalkStart = FALSE,
                          !.c.lsTalkFinish = FALSE,
                          !.c.lsDtmf = FALSE], "snoopHangup")

\* a StasisEnd handler that forgets the call without cleaning up
OnStasisEndNoCleanup(w) ==
    [w EXCEPT !.s.stasisEndSeen = TRUE, !.c.registered = FALSE]

\* the StasisEnd handler
OnStasisEnd(w) ==
    LET w1 == [w EXCEPT !.s.stasisEndSeen = TRUE]
    IN IF w.c.registered
       THEN [Cleanup(w1) EXCEPT !.c.registered = FALSE]
       ELSE w1

---------------------------------------------------------------------------
\* The steps of one call

Becomes(w) == cs' = w.c /\ rtp' = w.r /\ sw' = w.s /\ UNCHANGED domain

Init ==
    /\ domain = {}
    /\ rtp = NewRtpServer(0)
    /\ \E m \in {"after_prompt_start", "after_prompt_end"}, noInput \in BOOLEAN :
          cs = [NewCallState(m) EXCEPT !.config.noInput = noInput]
    /\ \E caller \in Callers : sw = NewSwitch(caller)
    \* the no-input timer is switched off only for the caller who speaks once
    /\ ~cs.config.noInput => sw.caller = SpeaksOnce

\* events of the main channel reach the application until its StasisEnd does
Delivering == ~sw.stasisEndSeen

\* handleCall after getDialplanVariables (lines 713-769): the call is
\* registered, the session timer armed, answer requested
GetDialplanVariablesReturns ==
    /\ cs.hc = "getVars"
    /\ Becomes([World EXCEPT !.c.registered = TRUE,
                             !.c.timerSession = TRUE,
                             !.c.hc = IF ChanOk(World) THEN "answer" ELSE "failed"])

\* after answer: getChannelVar TEXT_TO_SPEAK (line 772)
AnswerReturns ==
    /\ cs.hc = "answer"
    /\ Becomes([World EXCEPT !.c.hc = IF ChanOk(World) THEN "getText" ELSE "failed"])

\* setupAudioSnooping: the user bridge (lines 828-829)
GetTextReturns ==
    /\ cs.hc = "getText"
    /\ Becomes([World EXCEPT !.c.userBridge = TRUE,
                             !.s.userBridgeUp = TRUE,
                             !.c.hc = "bridgeCreate"])

\* getChannelVar returned no value for TEXT_TO_SPEAK: handleCall throws
\* and its catch logs (lines 773-775, 789-792)
GetTextReturnsEmpty ==
    /\ cs.hc = "getText"
    /\ Becomes([World EXCEPT !.c.textMissing = TRUE, !.c.hc = "failed"])

\* userBridge.addChannel (line 830)
BridgeCreateReturns ==
    /\ cs.hc = "bridgeCreate"
    /\ Becomes([World EXCEPT !.c.hc = IF ChanOk(World) /\ sw.userBridgeUp
                                     THEN "bridgeAdd" ELSE "failed"])

\* new RtpServer, listen (lines 834-835)
BridgeAddReturns ==
    /\ cs.hc = "bridgeAdd"
    /\ Becomes([World EXCEPT !.c.rtpServer = TRUE, !.c.hc = "listen"])

\* the audioPacket listener, snoopChannelWithId (lines 837-854)
ListenReturns ==
    /\ cs.hc = "listen"
    /\ Becomes(IF ChanOk(World)
               THEN [World EXCEPT !.s.snoopUp = TRUE, !.c.hc = "snoop"]
               ELSE [World EXCEPT !.c.hc = "failed"])

\* externalMedia (lines 848, 858)
SnoopReturns ==
    /\ cs.hc = "snoop"
    /\ Becomes([World EXCEPT !.c.snoopChannel = TRUE,
                             !.s.extMediaUp = TRUE,
                             !.c.hc = "extMedia"])

\* the snoop bridge (lines 858, 867-868)
ExternalMediaReturns ==
    /\ cs.hc = "extMedia"
    /\ Becomes([World EXCEPT !.c.externalMediaChannel = TRUE,
                             !.c.snoopBridge = TRUE,
                             !.s.snoopBridgeUp = TRUE,
                             !.c.hc = "snoopBridgeCreate"])

\* snoopBridge.addChannel (line 869)
SnoopBridgeCreateReturns ==
    /\ cs.hc = "snoopBridgeCreate"
    /\ Becomes([World EXCEPT !.c.hc = IF sw.snoopBridgeUp /\ sw.snoopUp /\ sw.extMediaUp
                                     THEN "snoopBridgeAdd" ELSE "failed"])

\* handlePrompt, streamTtsAudio up to synthesizeText (lines 783, 921-927)
SnoopBridgeAddReturns ==
    /\ cs.hc = "snoopBridgeAdd"
    /\ Becomes([World EXCEPT !.c.isPlayingPrompt = TRUE,
                             !.c.tts = "synth",
                             !.c.hc = "done"])

\* synthesizeText returns the stream; the data and end handlers are attached
SynthesizeTextReturns ==
    /\ cs.tts = "synth"
    /\ \E n \in 1..MaxChunks :
          Becomes([World EXCEPT !.c.tts = "streaming", !.s.chunksLeft = n])

\* synthesizeText rejects: the catch of streamTtsAudio logs, its finally
\* clears isPlayingPrompt (lines 1011-1016)
SynthesizeTextFails ==
    /\ cs.tts = "synth"
    /\ Becomes([World EXCEPT !.c.tts = "failed", !.c.isPlayingPrompt = FALSE])

TtsData ==
    /\ cs.tts \in {"streaming", "done"}
    /\ sw.chunksLeft > 0
    /\ Becomes(OnTtsData(World))

TtsEnd ==
    /\ cs.tts \in {"streaming", "done"}
    /\ sw.chunksLeft = 0
    /\ ~cs.streamFinished
    /\ Becomes(OnTtsEnd(World))

TtsEndSaved ==
    /\ cs.ttsEnd = "saving"
    /\ Becomes(OnTtsEndSaved(World))

SaveTempAudioReturns ==
    /\ cs.pq = "saving"
    /\ Becomes(ProcessQueueSaved(World))

\* the switch refuses the play of a chunk although the bridge exists
PlayRejected ==
    /\ cs.pq = "saving"
    /\ sw.userBridgeUp
    /\ Becomes(ProcessQueuePlayFails(World))

PlaybackFinished ==
    /\ sw.activePlayback # 0
    /\ Becomes(OnPlaybackFinished(World))

\* the setTimeout of line 951
VadTimerFires ==
    /\ cs.vadTimer
    /\ Becomes(EnableTalkDetection([World EXCEPT !.c.vadTimer = FALSE]))

\* the caller starts talking
ChannelTalkingStarted ==
    /\ Delivering
    /\ sw.talkDetect
    /\ ~sw.talking
    /\ sw.talkStarts < sw.caller.talks
    /\ LET w == [World EXCEPT !.s.talking = TRUE, !.s.talkStarts = @ + 1]
       IN Becomes(IF cs.lsTalkStart THEN OnTalkingStarted(w) ELSE w)

\* the caller stops talking
ChannelTalkingFinished ==
    /\ Delivering
    /\ sw.talking
    /\ LET w == [World EXCEPT !.s.talking = FALSE]
       IN Becomes(IF cs.lsTalkFinish THEN OnTalkingFinished(w) ELSE w)

\* the caller presses the next digit
ChannelDtmfReceived ==
    /\ Delivering
    /\ cs.lsDtmf
    /\ sw.digitsPressed < sw.caller.digits
    /\ LET d == sw.digitsPressed + 1
       IN Becomes(OnDtmfReceived([World EXCEPT !.s.digitsPressed = d], d))

\* playbacks.stop returned to onTalkingStarted
TalkingStartedStopReturns ==
    /\ cs.ts = "stopping"
    /\ Becomes(FlushAndOpen(World))

\* playbacks.stop returned to the first digit's onDtmfReceived
DtmfStopReturns ==
    /\ cs.d1 = "stopping"
    /\ Becomes(DtmfAppend([World EXCEPT !.c.d1 = "done"], cs.d1Digit))

\* startContinuousRecognitionAsync succeeded: audioStreamReady
AudioStreamReady ==
    /\ sw.rec = "starting"
    /\ Becomes(OnAudioStreamReady([World EXCEPT !.s.rec = "running"]))

\* sessionStopped, then recognitionEnded with the accumulated text
RecognitionEnded ==
    /\ sw.rec = "running"
    /\ sw.recStopAsked
    /\ \E text \in Texts :
          Becomes(RecognitionResolve([World EXCEPT !.s.rec = "ended"], text))

\* an RTP datagram from the external media channel, once VAD was armed
RtpFrame ==
    /\ cs.rtpServer /\ sw.extMediaUp /\ ~rtp.closed
    /\ cs.tdCalls > 0
    /\ rtp.arrivals < sw.caller.frames
    /\ LET f == rtp.arrivals + 1
       IN Becomes([World EXCEPT !.r = PbMessage(@, f, FramePayload(f))])

\* the 20 ms tick of the receiver; an emitted frame reaches the audioPacket listener
RtpTick ==
    /\ rtp.isPlaying /\ ~rtp.closed
    /\ rtp.jitterBuffer # {}
    /\ \E r1 \in PbTick(rtp) :
          LET w == [World EXCEPT !.r = r1]
          IN Becomes(IF r1.emitted # rtp.emitted
                     THEN OnAudioPacket(w, FramePayload(r1.lastPlayedSeq))
                     ELSE w)

\* the completion timer of the keypad (lines 1123-1126)
DtmfTimerFires ==
    /\ cs.timerDtmf
    /\ Becomes(ContinueInDialplan([World EXCEPT !.c.timerDtmf = FALSE], "timer"))

\* the session timer (lines 763-766) or the no-input timer (1028-1031): hangup
SessionTimerFires ==
    /\ sw.caller.hangup
    /\ cs.timerSession
    /\ Becomes([World EXCEPT !.c.timerSession = FALSE,
                             !.c.expiredLive = (ChanOk(World) /\ sw.rec = "running"),
                             !.s.chan = "gone"])

NoInputTimerFires ==
    /\ sw.caller.hangup
    /\ cs.timerNoInput
    /\ Becomes([World EXCEPT !.c.timerNoInput = FALSE, !.s.chan = "gone"])

\* an await of continueInDialplan returns
ContinueResumes ==
    \E i \in DOMAIN cs.fin :
       /\ cs.fin[i].pc # "done"
       /\ Becomes(FinResume(World, i))

\* the caller hangs up
CallerHangup ==
    /\ sw.caller.hangup
    /\ sw.chan = "up"
    /\ Becomes([World EXCEPT !.s.chan = "gone"])

\* the switch reports that the channel left the application
StasisEnd ==
    /\ sw.chan = "gone"
    /\ ~sw.stasisEndSeen
    /\ Becomes(OnStasisEnd(World))

\* an await of cleanup returns
CleanupResumes ==
    /\ cs.cl \notin {"idle", "done", "threw"}
    /\ Becomes(CleanupFrom(World, NextCleanupPc(cs.cl)))

Next ==
    \/ GetDialplanVariablesReturns \/ AnswerReturns \/ GetTextReturns
    \/ GetTextReturnsEmpty \/ SynthesizeTextFails \/ PlayRejected
    \/ BridgeCreateReturns \/ BridgeAddReturns \/ ListenReturns
    \/ SnoopReturns \/ ExternalMediaReturns \/ SnoopBridgeCreateReturns
    \/ SnoopBridgeAddReturns
    \/ SynthesizeTextReturns \/ TtsData \/ TtsEnd \/ TtsEndSaved
    \/ SaveTempAudioReturns \/ PlaybackFinished \/ VadTimerFires
    \/ ChannelTalkingStarted \/ ChannelTalkingFinished \/ ChannelDtmfReceived
    \/ TalkingStartedStopReturns \/ DtmfStopReturns
    \/ AudioStreamReady \/ RecognitionEnded
    \/ RtpFrame \/ RtpTick
    \/ DtmfTimerFires \/ SessionTimerFires \/ NoInputTimerFires
    \/ ContinueResumes
    \/ CallerHangup \/ StasisEnd \/ CleanupResumes

Spec == Init /\ [][Next]_vars

---------------------------------------------------------------------------
\* cleanup invoked more than once on one callState

MaxCleanups == 3     \* invocations of cleanup on the session

\* callState and switch when setupAudioSnooping has passed `stage` of its
\* assignments (lines 828, 834, 848, 858-867)
SessionAt(stage, session, noInput, dtmf, rec) ==
    [ c |-> [NewCallState("after_prompt_start") EXCEPT
                !.hc = IF stage = 4 THEN "done" ELSE "failed",
                !.registered = TRUE,
                !.userBridge = stage >= 1,
                !.rtpServer = stage >= 2,
                !.snoopChannel = stage >= 3,
                !.externalMediaChannel = stage >= 4,
                !.snoopBridge = stage >= 4,
                !.timerSession = session,
                !.timerNoInput = noInput,
                !.timerDtmf = dtmf,
                !.recPromise = IF rec = "none" THEN "none" ELSE "pending"],
      s |-> [NewSwitch([hangup |-> TRUE, talks |-> 0, digits |-> 0, frames |-> 0]) EXCEPT
                !.chan = "gone",
                !.stasisEndSeen = TRUE,
                !.userBridgeUp = stage >= 1,
                !.snoopUp = stage >= 3,
                !.extMediaUp = stage >= 4,
                !.snoopBridgeUp = stage >= 4,
                !.rec = rec,
                !.sttOpens = IF rec = "none" THEN 0 ELSE 1] ]

IdemInit ==
    /\ domain = {}
    /\ rtp = NewRtpServer(0)
    /\ \E stage \in 0..4, session, noInput, dtmf \in BOOLEAN,
          rec \in {"none", "starting", "running", "ended"} :
          /\ stage < 4 => ~noInput /\ ~dtmf /\ rec = "none"
          /\ cs = SessionAt(stage, session, noInput, dtmf, rec).c
          /\ sw = SessionAt(stage, session, noInput, dtmf, rec).s

\* cleanup(callState) is called, the first time or again
CleanupInvoked ==
    /\ cs.cl \in {"idle", "done", "threw"}
    /\ cs.cleanupRuns < MaxCleanups
    /\ Becomes(Cleanup(World))

IdemNext == CleanupInvoked \/ CleanupResumes

IdemSpec == IdemInit /\ [][IdemNext]_vars

---------------------------------------------------------------------------
\* A call whose recognizer can fail, with the steps of the program treated
\* fairly: an await that can return does return, a StasisEnd that is due
\* is delivered.  The caller speaks once and may hang up; nothing obliges
\* the caller or a timer to act.

FairInit ==
    /\ domain = {}
    /\ rtp = NewRtpServer(0)
    /\ \E m \in {"after_prompt_start", "after_prompt_end"} : cs = NewCallState(m)
    /\ sw = NewSwitch(SpeaksOnce)

\* startContinuousRecognitionAsync failed (azure-service.js lines 151-154):
\* recognitionError, and audioStreamReady never comes
RecognizerStartFails ==
    /\ sw.rec = "starting"
    /\ Becomes(RecognitionResolve([World EXCEPT !.s.rec = "failed",
                                                !.s.recFault = "start"], ""))

\* sttRecognizer.canceled (azure-service.js lines 118-129): recognitionError,
\* then stopContinuousRecognition
RecognizerCanceled ==
    /\ sw.rec = "running"
    /\ sw.recFault = "none"
    /\ Becomes([RecognitionResolve([World EXCEPT !.s.recFault = "canceled"], "")
                   EXCEPT !.s = StopOnCanceled(@)])

FairNext ==
    \/ GetDialplanVariablesReturns \/ AnswerReturns \/ GetTextReturns
    \/ BridgeCreateReturns \/ BridgeAddReturns \/ ListenReturns
    \/ SnoopReturns \/ ExternalMediaReturns \/ SnoopBridgeCreateReturns
    \/ SnoopBridgeAddReturns
    \/ SynthesizeTextReturns \/ TtsData \/ TtsEnd \/ TtsEndSaved
    \/ SaveTempAudioReturns \/ PlaybackFinished \/ VadTimerFires
    \/ ChannelTalkingStarted \/ ChannelTalkingFinished
    \/ TalkingStartedStopReturns
    \/ AudioStreamReady \/ RecognitionEnded
    \/ RecognizerStartFails \/ RecognizerCanceled
    \/ SessionTimerFires \/ NoInputTimerFires
    \/ ContinueResumes
    \/ CallerHangup \/ StasisEnd \/ CleanupResumes

FairSpec ==
    /\ FairInit /\ [][FairNext]_vars
    /\ WF_vars(StasisEnd) /\ WF_vars(CleanupResumes)
    /\ WF_vars(ContinueResumes) /\ WF_vars(TalkingStartedStopReturns)

\* The same call with the awaits of handleCall and setupAudioSnooping treated
\* fairly as well: a request the switch has answered does return
BuildSpec ==
    /\ FairInit /\ [][FairNext]_vars
    /\ WF_vars(StasisEnd) /\ WF_vars(CleanupResumes)
    /\ WF_vars(GetDialplanVariablesReturns) /\ WF_vars(AnswerReturns)
    /\ WF_vars(GetTextReturns) /\ WF_vars(BridgeCreateReturns)
    /\ WF_vars(BridgeAddReturns) /\ WF_vars(ListenReturns)
    /\ WF_vars(SnoopReturns) /\ WF_vars(ExternalMediaReturns)
    /\ WF_vars(SnoopBridgeCreateReturns) /\ WF_vars(SnoopBridgeAddReturns)

---------------------------------------------------------------------------
\* A caller who speaks once and stays on the line, a recognizer that does
\* not fail and no timer that hangs up.  The recognizer service is treated
\* fairly as well: a session being opened becomes ready, a running session
\* that was asked to stop ends.

StaysAndSpeaks == [hangup |-> FALSE, talks |-> 1, digits |-> 0, frames |-> 0]

VoiceInit ==
    /\ domain = {}
    /\ rtp = NewRtpServer(0)
    /\ \E m \in {"after_prompt_start", "after_prompt_end"} : cs = NewCallState(m)
    /\ sw = NewSwitch(StaysAndSpeaks)

VoiceNext ==
    \/ GetDialplanVariablesReturns \/ AnswerReturns \/ GetTextReturns
    \/ BridgeCreateReturns \/ BridgeAddReturns \/ ListenReturns
    \/ SnoopReturns \/ ExternalMediaReturns \/ SnoopBridgeCreateReturns
    \/ SnoopBridgeAddReturns
    \/ SynthesizeTextReturns \/ TtsData \/ TtsEnd \/ TtsEndSaved
    \/ SaveTempAudioReturns \/ PlaybackFinished \/ VadTimerFires
    \/ ChannelTalkingStarted \/ ChannelTalkingFinished
    \/ TalkingStartedStopReturns
    \/ AudioStreamReady \/ RecognitionEnded
    \/ ContinueResumes
    \/ StasisEnd \/ CleanupResumes

VoiceSpec ==
    /\ VoiceInit /\ [][VoiceNext]_vars
    /\ WF_vars(StasisEnd) /\ WF_vars(CleanupResumes)
    /\ WF_vars(ContinueResumes) /\ WF_vars(TalkingStartedStopReturns)
    /\ WF_vars(AudioStreamReady) /\ WF_vars(RecognitionEnded)

---------------------------------------------------------------------------
\* A caller who talks, presses a digit and whose audio arrives, with a
\* recognizer that may fail: the audio path of the orchestrator under every
\* order of these events.  The caller stays on the line and no timer hangs
\* up: the channel leaves when the script is continued.  Talk detection is
\* armed after the prompt (mode after_prompt_end).

TalksAndDials == [hangup |-> FALSE, talks |-> 1, digits |-> 1, frames |-> MaxFrames]

StreamInit ==
    /\ domain = {}
    /\ rtp = NewRtpServer(0)
    /\ cs = NewCallState("after_prompt_end")
    /\ \E frames \in 1..MaxFrames :
          sw = NewSwitch([TalksAndDials EXCEPT !.frames = frames])

StreamNext ==
    \/ GetDialplanVariablesReturns \/ AnswerReturns \/ GetTextReturns
    \/ BridgeCreateReturns \/ BridgeAddReturns \/ ListenReturns
    \/ SnoopReturns \/ ExternalMediaReturns \/ SnoopBridgeCreateReturns
    \/ SnoopBridgeAddReturns
    \/ SynthesizeTextReturns \/ TtsData \/ TtsEnd \/ TtsEndSaved
    \/ SaveTempAudioReturns \/ PlaybackFinished
    \/ ChannelTalkingStarted \/ ChannelTalkingFinished \/ ChannelDtmfReceived
    \/ AudioStreamReady \/ RecognitionEnded
    \/ RecognizerStartFails \/ RecognizerCanceled
    \/ RtpFrame \/ RtpTick
    \/ DtmfTimerFires
    \/ ContinueResumes
    \/ StasisEnd \/ CleanupResumes

StreamSpec == StreamInit /\ [][StreamNext]_vars

---------------------------------------------------------------------------
\* The UDP socket of the receiver: listen, the bind answers and socket errors
\* (src/rtp-server.js lines 25-29, 41-45, 48-72).  The variable rtp holds the
\* receiver and its socket, sw the ports other programs hold, cs the position
\* of setupAudioSnooping around its await of listen.

MaxPort == 3
Ports == 0..MaxPort
BindErrors == {"EADDRINUSE", "EACCES"}
NoAddress == -1

\* dgram.createSocket: ctor says whether the constructor's handlers are on it
NewSocket(ctor) == [st |-> "unbound", ctor |-> ctor]

\* new RtpServer: no listener for 'error' is ever added to the receiver,
\* setupAudioSnooping adds 'audioPacket' alone (part_010 line 837)
NewSocketServer ==
    [ socket         |-> NewSocket(TRUE),
      address        |-> NoAddress,
      port           |-> NoAddress,    \* the port of the running tryBind
      promise        |-> "none",       \* none, pending, resolved, rejected
      onError        |-> FALSE,        \* the once('error') of tryBind is on
      errorListeners |-> 0,            \* listeners for 'error' on the receiver
      lastError      |-> "none",       \* the last error the socket emitted
      uncaught       |-> FALSE ]       \* an exception left an event callback

\* socket.close(): dgram throws on a socket that is closed already
SocketClose(r) ==
    IF r.socket.st = "closed" THEN [r EXCEPT !.uncaught = TRUE]
    ELSE [r EXCEPT !.socket.st = "closed"]

\* the constructor's handler of the socket's 'error' (lines 25-29): close,
\* then emit 'error' on the receiver, which throws when nobody listens
SocketErrorHandler(r) ==
    LET r1 == SocketClose(r)
    IN IF r1.uncaught \/ r1.errorListeners > 0 THEN r1
       ELSE [r1 EXCEPT !.uncaught = TRUE]

\* tryBind (lines 50-69): the listeners are registered, bind is requested
TryBind(r, port) ==
    [r EXCEPT !.onError = TRUE, !.port = port, !.socket.st = "binding"]

\* onError of tryBind (lines 56-65)
OnError(r, code) ==
    IF code = "EADDRINUSE"
    THEN LET r1 == SocketClose(r)
         IN IF r1.uncaught THEN r1
            ELSE TryBind([r1 EXCEPT !.socket = NewSocket(FALSE)], r.port + 1)
    ELSE [r EXCEPT !.promise = "rejected"]

\* the socket emits 'error': its listeners run in the order they were added,
\* the constructor's first, and an exception ends the emit
EmitSocketError(r, code) ==
    LET r0 == [r EXCEPT !.lastError = code]
        r1 == IF r0.socket.ctor THEN SocketErrorHandler(r0) ELSE r0
    IN IF r1.uncaught \/ ~r1.onError THEN r1
       ELSE OnError([r1 EXCEPT !.onError = FALSE], code)

\* the socket emits 'listening' (lines 41-45, 51-54)
OnListening(r) ==
    [r EXCEPT !.socket.st = "bound",
              !.address = IF r.socket.ctor THEN r.port ELSE @,
              !.onError = FALSE,
              !.promise = "resolved"]

SockInit ==
    /\ domain = Ports
    /\ rtp = NewSocketServer
    /\ cs = [hc |-> "bridgeAdd"]
    /\ \E busy \in SUBSET Ports, startPort \in Ports :
          sw = [chan |-> "up", busy |-> busy, startPort |-> startPort]

\* setupAudioSnooping calls listen (lines 834-835)
ListenCalled ==
    /\ cs.hc = "bridgeAdd"
    /\ rtp' = TryBind([rtp EXCEPT !.promise = "pending"], sw.startPort)
    /\ cs' = [cs EXCEPT !.hc = "listen"]
    /\ UNCHANGED <<domain, sw>>

\* the bind of a free port succeeds
BindSucceeds ==
    /\ rtp.socket.st = "binding" /\ ~rtp.uncaught
    /\ rtp.port \notin sw.busy
    /\ rtp' = OnListening(rtp)
    /\ UNCHANGED <<domain, cs, sw>>

\* the bind fails: a port in use answers EADDRINUSE, a free one may be refused
BindFails ==
    /\ rtp.socket.st = "binding" /\ ~rtp.uncaught
    /\ \E code \in BindErrors :
          /\ (code = "EADDRINUSE") <=> (rtp.port \in sw.busy)
          /\ rtp' = EmitSocketError(rtp, code)
    /\ UNCHANGED <<domain, cs, sw>>

\* the bound socket reports an error while receiving
SocketFails ==
    /\ rtp.socket.st = "bound" /\ ~rtp.uncaught
    /\ rtp' = EmitSocketError(rtp, "ERECV")
    /\ UNCHANGED <<domain, cs, sw>>

\* the await of listen returns to setupAudioSnooping (lines 835-844)
ListenResolved ==
    /\ cs.hc = "listen" /\ rtp.promise = "resolved" /\ ~rtp.uncaught
    /\ cs' = [cs EXCEPT !.hc = "snoop"]
    /\ UNCHANGED <<domain, rtp, sw>>

SockNext ==
    \/ ListenCalled \/ BindSucceeds \/ BindFails \/ SocketFails
    \/ ListenResolved

SocketSpec == SockInit /\ [][SockNext]_vars

---------------------------------------------------------------------------
\* Channels entering the application: the StasisStart handler of App.start
\* (src/unnamed/part_010 lines 554-563).  The variable domain holds, for each
\* channel, the arguments it enters with and its caller number; cs holds the
\* orchestrator's side, sw the channels that have entered.

MaxChannels == 2
Channels == 1..MaxChannels
ArgLists == {<<>>, <<"internal">>, <<"menu">>}
CallerNumbers == {"", "1001"}

\* event.args.includes('internal')
Includes(args, a) == \E i \in 1..Len(args) : args[i] = a

\* the test of line 556: marked internal, or no caller number
IgnoredOnEnter(ch) ==
    Includes(ch.args, "internal") \/ ch.number = ""

\* the StasisStart listener (lines 554-563)
OnStasisStart(c, id, ch) ==
    IF IgnoredOnEnter(ch)
    THEN [c EXCEPT !.answered = @ \cup {id}]
    ELSE [c EXCEPT !.handling = @ \cup {id}]

EnterInit ==
    /\ domain \in [Channels -> [args : ArgLists, number : CallerNumbers]]
    /\ rtp = NoFlush
    /\ cs = [hc |-> "none", answered |-> {}, handling |-> {}, activeCalls |-> {}]
    /\ sw = [chan |-> "none", entered |-> {}]

\* a channel enters the application
StasisStart ==
    \E id \in Channels \ sw.entered :
        /\ cs' = OnStasisStart(cs, id, domain[id])
        /\ sw' = [sw EXCEPT !.entered = @ \cup {id}]
        /\ UNCHANGED <<domain, rtp>>

\* handleCall reaches activeCalls.set (lines 731-756) after its awaits
HandleCallRegisters ==
    \E id \in cs.handling \ cs.activeCalls :
        /\ cs' = [cs EXCEPT !.activeCalls = @ \cup {id}]
        /\ UNCHANGED <<domain, rtp, sw>>

EnterNext == StasisStart \/ HandleCallRegisters

EnterSpec == EnterInit /\ [][EnterNext]_vars

---------------------------------------------------------------------------
\* One recognizer session of AzureService (src/azure-service.js lines 86-167)
\* under the callbacks of the provider.  The variable cs holds the service
\* object, sw the provider's side; texts are sequences of characters.

MaxCallbacks == 4
Hypotheses == {<<>>, <<"s", "i">>, <<"n", "o">>}

RECURSIVE TrimStart(_)
TrimStart(t) == IF t # <<>> /\ Head(t) = " " THEN TrimStart(Tail(t)) ELSE t

RECURSIVE TrimEnd(_)
TrimEnd(t) ==
    IF t # <<>> /\ t[Len(t)] = " " THEN TrimEnd(SubSeq(t, 1, Len(t) - 1)) ELSE t

\* String.prototype.trim
Trim(t) == TrimEnd(TrimStart(t))

\* the service after startContinuousRecognition has returned (lines 86-156)
StartedService ==
    [ hc             |-> "none",
      sttRecognizer  |-> TRUE,     \* this.sttRecognizer is not null
      sttPushStream  |-> TRUE,     \* this.sttPushStream is not null
      recognizedText |-> <<>>,
      emitted        |-> <<>>,     \* the events emitted, in order
      threw          |-> FALSE ]   \* a callback ended with a TypeError

\* recognized (lines 104-116)
OnRecognized(a, text) ==
    IF text # <<>> THEN [a EXCEPT !.recognizedText = @ \o text \o <<" ">>] ELSE a

\* the callback given to stopContinuousRecognitionAsync (lines 134-143):
\* this.sttRecognizer.close() is reached with this.sttRecognizer null when
\* an earlier run of the callback has cleared it
OnStopped(a) ==
    LET a1 == [a EXCEPT !.emitted =
                   Append(@, [ev |-> "recognitionEnded",
                              finalText |-> Trim(a.recognizedText)]),
                        !.sttPushStream = FALSE]
    IN IF a.sttRecognizer THEN [a1 EXCEPT !.sttRecognizer = FALSE]
       ELSE [a1 EXCEPT !.threw = TRUE]

\* the hypotheses the provider has reported, joined by single spaces
RECURSIVE Joined(_)
Joined(hs) ==
    IF hs = <<>> THEN <<>>
    ELSE IF Head(hs) = <<>> THEN Joined(Tail(hs))
    ELSE LET rest == Joined(Tail(hs))
         IN IF rest = <<>> THEN Head(hs) ELSE Head(hs) \o <<" ">> \o rest

Callbacks == Len(sw.reported) + sw.canceled + sw.stopped + sw.stopRequests

AdapterInit ==
    /\ domain = Hypotheses
    /\ rtp = NoFlush
    /\ cs = StartedService
    /\ sw = [chan |-> "none", reported |-> <<>>, canceled |-> 0, stopped |-> 0,
             stopRequests |-> 0, stopsPending |-> 0, endedWith |-> <<>>]

\* the provider reports a recognized hypothesis
ProviderRecognized ==
    /\ Callbacks < MaxCallbacks
    /\ \E text \in domain :
          /\ cs' = OnRecognized(cs, text)
          /\ sw' = [sw EXCEPT !.reported = Append(@, text)]
    /\ UNCHANGED <<domain, rtp>>

\* canceled (lines 118-129): recognitionError, then stopContinuousRecognition,
\* which asks the provider to stop when this.sttRecognizer is not null
ProviderCanceled ==
    /\ Callbacks < MaxCallbacks
    /\ cs' = [cs EXCEPT !.emitted = Append(@, [ev |-> "recognitionError",
                                               finalText |-> <<>>])]
    /\ sw' = [sw EXCEPT !.canceled = @ + 1]
    /\ UNCHANGED <<domain, rtp>>

\* sessionStopped (lines 131-144): this.sttRecognizer is dereferenced
ProviderSessionStopped ==
    /\ Callbacks < MaxCallbacks
    /\ IF cs.sttRecognizer
       THEN /\ sw' = [sw EXCEPT !.stopped = @ + 1, !.stopsPending = @ + 1]
            /\ cs' = cs
       ELSE /\ sw' = [sw EXCEPT !.stopped = @ + 1]
            /\ cs' = [cs EXCEPT !.threw = TRUE]
    /\ UNCHANGED <<domain, rtp>>

\* the provider completes a stop asked by sessionStopped
StopCompletes ==
    /\ sw.stopsPending > 0
    /\ cs' = OnStopped(cs)
    /\ sw' = [sw EXCEPT !.stopsPending = @ - 1, !.endedWith = sw.reported]
    /\ UNCHANGED <<domain, rtp>>

\* stopContinuousRecognition (lines 161-167), called by the orchestrator
StopRequested ==
    /\ Callbacks < MaxCallbacks
    /\ sw' = [sw EXCEPT !.stopRequests = @ + 1]
    /\ UNCHANGED <<domain, rtp, cs>>

AdapterNext ==
    \/ ProviderRecognized \/ ProviderCanceled \/ ProviderSessionStopped
    \/ StopCompletes \/ StopRequested

AdapterSpec == AdapterInit /\ [][AdapterNext]_vars

---------------------------------------------------------------------------
\* The configuration of a call: createCallConfig (src/unnamed/part_010 lines
\* 614-702) applied to the variables of the channel.  Texts are sequences of
\* characters; the variable domain holds the variables (name to value), sw
\* the configuration of the process, cs the configuration of the call.

MaxVars == 2
DIALPLAN_VAR_PREFIX == "APP_VAR_"
VarNames ==
    { [prefix |-> DIALPLAN_VAR_PREFIX, name |-> "ENABLE_DTMF"],
      [prefix |-> DIALPLAN_VAR_PREFIX, name |-> "NO_INPUT_TIMEOUT_MS"],
      [prefix |-> DIALPLAN_VAR_PREFIX, name |-> "LOG_LEVEL"],
      [prefix |-> DIALPLAN_VAR_PREFIX, name |-> "COLOUR"],
      [prefix |-> "", name |-> "ENABLE_DTMF"] }
VarValues ==
    { <<"t", "r", "u", "e">>, <<"T", "R", "U", "E">>, <<"s", "i">>,
      <<"5", "0">>, <<"x">>, <<>> }

\* the entries of varToPathMap that VarNames can name (lines 617-667)
VarToPathMap ==
    [ ENABLE_DTMF         |-> "app.dtmf.enabled",
      NO_INPUT_TIMEOUT_MS |-> "app.timeouts.noInput",
      LOG_LEVEL           |-> "logging.level" ]
IntKeys == {"NO_INPUT_TIMEOUT_MS"}
BoolKeys == {"ENABLE_DTMF"}

DecimalDigits == <<"0", "1", "2", "3", "4", "5", "6", "7", "8", "9">>
IsDigit(ch) == \E d \in 1..10 : DecimalDigits[d] = ch
DigitValue(ch) == (CHOOSE d \in 1..10 : DecimalDigits[d] = ch) - 1

\* the digits at the head of t, read in base ten after acc
RECURSIVE ParseDigits(_, _)
ParseDigits(t, acc) ==
    IF t # <<>> /\ IsDigit(Head(t))
    THEN ParseDigits(Tail(t), acc * 10 + DigitValue(Head(t)))
    ELSE acc

\* parseInt(value, 10): leading blanks and a sign are skipped, the longest
\* prefix of digits is read; isNaN when there is none
ParseInt(value) ==
    LET t == TrimStart(value)
        signed == t # <<>> /\ Head(t) \in {"-", "+"}
        ds == IF signed THEN Tail(t) ELSE t
        n == ParseDigits(ds, 0)
    IN IF ds = <<>> \/ ~IsDigit(Head(ds)) THEN [isNaN |-> TRUE, num |-> 0]
       ELSE [isNaN |-> FALSE,
             num |-> IF signed /\ Head(t) = "-" THEN 0 - n ELSE n]

\* toLowerCase, on the letters that VarValues holds
LowerOf(ch) ==
    CASE ch = "T" -> "t" [] ch = "R" -> "r" [] ch = "U" -> "u" [] ch = "E" -> "e"
      [] OTHER -> ch
ToLowerCase(t) == [i \in 1..Len(t) |-> LowerOf(t[i])]

\* parseDialplanValue (lines 669-684); isNull stands for the null result
ParseDialplanValue(key, value) ==
    IF key \in IntKeys
    THEN LET p == ParseInt(value) IN [isNull |-> p.isNaN, v |-> p.num]
    ELSE IF key \in BoolKeys
    THEN [isNull |-> FALSE, v |-> ToLowerCase(value) = <<"t", "r", "u", "e">>]
    ELSE [isNull |-> FALSE, v |-> value]

\* one turn of the loop of createCallConfig (lines 686-701)
ApplyVar(callConfig, key, value) ==
    IF key.prefix # DIALPLAN_VAR_PREFIX THEN callConfig
    ELSE IF key.name \notin DOMAIN VarToPathMap THEN callConfig
    ELSE LET parsed == ParseDialplanValue(key.name, value)
         IN IF parsed.isNull THEN callConfig
            ELSE [callConfig EXCEPT ![VarToPathMap[key.name]] = parsed.v]

\* createCallConfig: the loop over the entries of dialplanVars, which have
\* distinct names and write distinct paths
RECURSIVE ApplyVars(_, _, _)
ApplyVars(callConfig, dialplanVars, keys) ==
    IF keys = {} THEN callConfig
    ELSE LET key == CHOOSE k \in keys : TRUE
         IN ApplyVars(ApplyVar(callConfig, key, dialplanVars[key]),
                      dialplanVars, keys \ {key})

CreateCallConfig(dialplanVars, config) ==
    ApplyVars(config, dialplanVars, DOMAIN dialplanVars)

\* the configuration of the process: src/config.js lines 43, 46, 57

ConfigInit ==
    /\ \E keys \in SUBSET VarNames :
          /\ Cardinality(keys) <= MaxVars
          /\ domain \in [keys -> VarValues]
    /\ rtp = NoFlush
    /\ \E enabled \in BOOLEAN, noInput \in {0, 30} :
          sw = [chan |-> "none",
                config |-> [p \in {"app.dtmf.enabled", "app.timeouts.noInput",
                                  "logging.level"} |->
                              CASE p = "app.dtmf.enabled" -> enabled
                                [] p = "app.timeouts.noInput" -> noInput
                                [] OTHER -> <<"i", "n", "f", "o">>]]
    /\ cs = [hc |-> "none", made |-> FALSE, config |-> sw.config]

\* handleCall builds the configuration of the call (line 716)
CallConfigCreated ==
    /\ ~cs.made
    /\ cs' = [cs EXCEPT !.made = TRUE,
                        !.config = CreateCallConfig(domain, sw.config)]
    /\ UNCHANGED <<domain, rtp, sw>>

ConfigSpec == ConfigInit /\ [][CallConfigCreated]_vars

---------------------------------------------------------------------------
\* Properties of the call orchestrator

\* C1: whichever way the channel leaves, once its StasisEnd has been handled
\* and handleCall has returned, cleanup has run exactly once for the call and
\* the registry holds no entry for the channel
C1_CleanupExactlyOnce ==
    (sw.stasisEndSeen /\ cs.hc \in {"done", "failed"})
        => (cs.cleanupRuns = 1 /\ ~cs.registered)

\* C2: when voice-start is processed while prompt chunks are queued, being
\* prepared or playing, a stop is requested for the playback that is active
\* and no chunk of the prompt is started afterwards
C2_BargeInStopsPrompt ==
    cs.voiceDuringPrompt =>
        /\ ~cs.playAfterVoice
        /\ cs.voicePlayback # 0 => cs.voicePlayback \in sw.stopRequests

\* C3: the recognizer session of a call is opened at most once
C3_SingleRecognizerSession == sw.sttOpens <= 1

\* the caller started talking a second time after the session was opened
C3_Witness == sw.sttOpens = 1 /\ sw.talkStarts = 2 /\ sw.rec = "running"

\* C4: the switch is asked to continue only with an outcome pair written, and
\* TRANSCRIPT and DTMF_RESULT are never both written for one call
C4_OneOutcomePair ==
    /\ ~sw.continueUnpaired
    /\ ~(sw.chanVars.TRANSCRIPT # NoText /\ sw.chanVars.DTMF_RESULT # <<0>>)

\* the digits 1, 2, ... in the order they were pressed
InOrder(digits) == \A k \in DOMAIN digits : digits[k] = k

\* C5: once a digit has been received only the expiry of the completion timer
\* finalizes the call, never while that timer is pending, and DTMF_RESULT
\* holds the digits in the order they were pressed
C5_KeypadFinalizedByTimer ==
    /\ \A i \in DOMAIN cs.fin : cs.fin[i].afterDigit => cs.fin[i].src = "timer"
    /\ ~cs.finWhileDtmfTimer
    /\ sw.chanVars.DTMF_RESULT # <<0>> => InOrder(sw.chanVars.DTMF_RESULT)

\* C6: after the first digit has been processed no recognizer session is
\* opened, no audio is fed to one, and the no-input timer is not pending
C6_DigitDisablesVoicePath ==
    cs.recognitionMode = "dtmf" =>
        ~cs.isRecognizing /\ ~cs.openAfterDigit /\ ~cs.timerNoInput

\* C7: while audio is being fed, the push stream holds the flushed
\* pre-buffer as PCM followed by every frame emitted since the flush, in order
C7_PushStreamContent ==
    cs.isRecognizing =>
        sw.pushWritten = UlawToPcm(rtp.flushed) \o UlawToPcm(Concat(sw.dueFrames))

---------------------------------------------------------------------------
\* Properties of the RTP receiver

\* b lies ahead of a on the 16-bit circle
\* a finalization that began on the voice path has continued the script
VoiceFlowCompleted ==
    \E i \in DOMAIN cs.fin : cs.fin[i].src = "voice" /\ cs.fin[i].continued

\* what cleanup releases: bridges, internal channels, receiver, recognizer
Released ==
    /\ ~sw.userBridgeUp /\ ~sw.snoopBridgeUp
    /\ ~sw.snoopUp /\ ~sw.extMediaUp
    /\ rtp.closed
    /\ sw.rec \in {"starting", "running"} => sw.recStopAsked

\* C11: when cleanup has finished for a call that completed the voice flow,
\* both bridges are destroyed, both internal channels hung up, the receiver
\* is closed and the recognizer stopped
C11_CleanupReleasesAll ==
    (cs.cl = "done" /\ VoiceFlowCompleted) => Released

\* the script was continued after a voice finalization and cleanup has finished
C11_Witness == cs.cl = "done" /\ VoiceFlowCompleted /\ sw.continueCount = 1

\* C12: once the call has ended (cleanup finished, nothing playing, no chunk
\* being prepared) no temporary WAV file of a prompt chunk is left on disk
C12_NoTempFileRemains ==
    (cs.cl = "done" /\ VoiceFlowCompleted /\ sw.activePlayback = 0 /\ cs.pq = "idle")
        => sw.tempFiles = {}

\* C13: a second invocation of cleanup lets no exception out and leaves the
\* session as the first one left it, with nothing held
C13_CleanupIdempotent ==
    /\ cs.cl # "threw"
    /\ (cs.cleanupRuns >= 2 /\ cs.cl = "done") =>
          /\ ~sw.userBridgeUp /\ ~sw.snoopBridgeUp /\ ~sw.snoopUp /\ ~sw.extMediaUp
          /\ cs.rtpServer => rtp.closed
          /\ ~cs.timerSession /\ ~cs.timerNoInput /\ ~cs.timerDtmf

\* C14: when the session timer hangs the channel up while the recognizer is
\* still running, the channel's exit runs cleanup and the session ends with
\* its registry entry removed and everything it held released
C14_SessionTimeoutTerminates ==
    cs.expiredLive ~> (cs.cl = "done" /\ ~cs.registered /\ Released)

\* the session timer expired during recognition and cleanup has finished
C14_Witness == cs.expiredLive /\ cs.cl = "done" /\ cs.cleanupRuns = 1

\* C15: the no-input timer is pending only if it is configured, VAD has been
\* armed, and neither a voice-start nor a digit has been processed since
C15_NoInputTimerOnlyBeforeInput ==
    cs.timerNoInput =>
        /\ cs.config.noInput /\ cs.tdCalls > 0
        /\ ~cs.voiceStartSeen /\ cs.recognitionMode = "voice"

\* the timer was armed and a voice-start cancelled it, the channel still up
C15_Witness ==
    /\ cs.config.noInput /\ cs.tdCalls = 1 /\ cs.voiceStartSeen
    /\ ~cs.timerNoInput /\ sw.chan = "up"

\* C16: after any recognizer error the script is continued, unless the
\* caller has left in the meantime
C16_RecognizerErrorContinues ==
    (sw.recFault # "none") ~> (sw.continueCount > 0 \/ sw.chan = "gone")

\* C17: when streamTtsAudio has given the prompt up after a failure, VAD has
\* been armed or its arming is scheduled
C17_PromptFailureStillArmsVad ==
    cs.tts = "failed" => (cs.tdCalls > 0 \/ cs.vadTimer)

\* C18: when TEXT_TO_SPEAK is missing the call is finalized: handleCall does
\* not return without continueInDialplan having been entered
C18_MissingTextFinalizes ==
    (cs.textMissing /\ cs.hc = "failed") => cs.fin # <<>>

\* C19: an error of the receiver's socket is handled: it does not leave the
\* event callback as an exception
C19_SocketErrorHandled ==
    rtp.lastError # "none" => ~rtp.uncaught

\* C20: when the bind of a port was answered with address-in-use, listen has
\* moved on to a higher port, which it is binding or has bound
C20_ListenTriesNextPort ==
    rtp.lastError = "EADDRINUSE"
        => (rtp.port > sw.startPort /\ rtp.socket.st \in {"binding", "bound"})

\* C21: an entering channel is answered and left without a session exactly
\* when it is marked internal; every other entering channel is handled
C21_OnlyInternalIgnored ==
    \A id \in sw.entered :
        /\ Includes(domain[id].args, "internal")
              => (id \in cs.answered /\ id \notin cs.handling)
        /\ ~Includes(domain[id].args, "internal") => id \in cs.handling

Ended(a) == {i \in 1..Len(a.emitted) : a.emitted[i].ev = "recognitionEnded"}

\* C22: recognitionEnded is emitted at most once in a recognizer session,
\* carries the reported hypotheses joined by single spaces, and is terminal:
\* no event follows it and no callback fails
C22_RecognitionEndedTerminal ==
    /\ Cardinality(Ended(cs)) <= 1
    /\ \A i \in Ended(cs) :
          /\ i = Len(cs.emitted)
          /\ cs.emitted[i].finalText = Joined(sw.endedWith)
    /\ ~cs.threw

\* C23: chunks are played in the order the stream produced them, and no play
\* is requested while the playback of an earlier chunk has not finished
C23_ChunksPlayedInOrderOneAtATime ==
    /\ \A i, j \in DOMAIN sw.played : i < j => sw.played[i] < sw.played[j]
    /\ ~sw.playOverlap

\* the second chunk was started after the first one had finished
C23_Witness == Len(sw.played) = MaxChunks /\ sw.activePlayback = MaxChunks

Parsable(name, value) ==
    IF name \in IntKeys THEN ~ParseInt(value).isNaN
    ELSE IF name \in BoolKeys
    THEN ToLowerCase(value) \in {<<"t", "r", "u", "e">>, <<"f", "a", "l", "s", "e">>}
    ELSE TRUE

\* C25: a field of the call's configuration differs from the process default
\* only when a prefixed variable of a known name with a parsable value names it
C25_OnlyParsableKnownVarsOverride ==
    cs.made =>
        \A p \in DOMAIN cs.config :
            cs.config[p] # sw.config[p] =>
                \E key \in DOMAIN domain :
                    /\ key.prefix = DIALPLAN_VAR_PREFIX
                    /\ key.name \in DOMAIN VarToPathMap
                    /\ VarToPathMap[key.name] = p
                    /\ Parsable(key.name, domain[key])

\* C26: the recognition mode of every interaction record given to the
\* database is one of the values of the column
C26_InteractionModeInEnum ==
    \A i \in DOMAIN sw.interactions :
        sw.interactions[i].recognitionMode \in RecognitionModes

\* C27: a call is never playing its prompt and recognizing at once
C27_PromptAndRecognizingExclusive ==
    ~(cs.isPlayingPrompt /\ cs.isRecognizing)

\* C28: cleanupTempAudio is called at most once for a chunk, and only for a
\* chunk that was played and whose playback is over
C28_TempFileDeletedOnceAfterPlayback ==
    /\ \A i, j \in DOMAIN sw.deleted : i # j => sw.deleted[i] # sw.deleted[j]
    /\ \A i \in DOMAIN sw.deleted :
          /\ \E k \in DOMAIN sw.played : sw.played[k] = sw.deleted[i]
          /\ sw.deleted[i] # sw.activePlayback
          /\ sw.deleted[i] \notin sw.tempFiles

\* the file of the first chunk is gone while the second chunk plays
C28_Witness ==
    /\ sw.deleted = <<1>> /\ sw.activePlayback = MaxChunks
    /\ MaxChunks \in sw.tempFiles

\* C29: a skip goes to the buffered key with the smallest forward modular
\* distance to the expected sequence number, and leaves lastPlayedSeq at that
\* key minus one with the miss counter reset
C29_SkipToNearestForwardKey ==
    rtp.lastSkip # NoSkip =>
        \A j \in rtp.lastSkip.keys :
            ForwardDiff(rtp.lastSkip.to, rtp.lastSkip.nextSeq)
                <= ForwardDiff(j, rtp.lastSkip.nextSeq)

\* C30: within a call the receiver is flushed only after pre-buffering was
\* started, and once flushed it never pre-buffers again
C30_PreBufferModeForwardOnly ==
    rtp.flushed # NoFlush => (cs.tdCalls >= 1 /\ ~rtp.isPreBuffering)

\* a frame arrives at the receiver after the flush
C30_Witness ==
    /\ rtp.flushed # NoFlush /\ ~rtp.isPreBuffering
    /\ rtp.arrivals > 0 /\ rtp.preArrivals = <<>> /\ cs.voiceStartSeen

\* C31: nothing is written to the push stream after the call has asked its
\* recognizer to stop (on voice-end, on the first digit or in cleanup)
C31_NoWriteAfterStop == ~sw.writeAfterStop

\* C39: nothing is written to the push stream after the recognizer session
\* has ended or has reported an error
C39_NoWriteAfterSessionOver == ~sw.writeAfterEnd

\* C32: once cleanup of the session has run to its end, none of the session,
\* no-input and keypad-completion timers is armed
C32_NoTimerAfterCleanup ==
    cs.cl = "done" => ~(cs.timerSession \/ cs.timerNoInput \/ cs.timerDtmf)

\* C33: every invocation of cleanup that has ended, ended without an
\* exception and got as far as its last step: a recognizer that is live has
\* been asked to stop
C33_CleanupStepsAllRun ==
    cs.cl \in {"done", "threw"} =>
        /\ cs.cl = "done"
        /\ sw.rec \in {"starting", "running"} => sw.recStopAsked

\* the resources of the media topology in the order setupAudioSnooping
\* creates them, each with "the session holds it" and "it is alive"
Topology ==
    << [held |-> cs.userBridge,           live |-> sw.userBridgeUp],
       [held |-> cs.rtpServer,            live |-> ~rtp.closed],
       [held |-> cs.snoopChannel,         live |-> sw.snoopUp],
       [held |-> cs.externalMediaChannel, live |-> sw.extMediaUp],
       [held |-> cs.snoopBridge,          live |-> sw.snoopBridgeUp] >>

\* C34: teardown runs in the reverse of the creation order (a resource is
\* released only when everything created after it has been released), and
\* a bridge is destroyed only after the snoop and external media channels
\* have been hung up
C34_TeardownReversesCreation ==
    /\ \A i, j \in 1..Len(Topology) :
          (i < j /\ Topology[i].held /\ ~Topology[i].live)
              => ~(Topology[j].held /\ Topology[j].live)
    /\ \A b \in {1, 5}, ch \in {3, 4} :
          (Topology[b].held /\ ~Topology[b].live)
              => ~(Topology[ch].held /\ Topology[ch].live)

\* the second half of C34 alone
C34_BridgesAfterChannels ==
    \A b \in {1, 5}, ch \in {3, 4} :
        (Topology[b].held /\ ~Topology[b].live)
            => ~(Topology[ch].held /\ Topology[ch].live)

\* the invocations of continueInDialplan that have written an outcome
\* variable, and those that have asked the switch to continue
WroteOutcome == {i \in DOMAIN cs.fin : cs.fin[i].pc \in {"set1", "set2", "done"}}
AskedToContinue == {i \in DOMAIN cs.fin : cs.fin[i].pc = "done"}

\* C35: for one call at most one invocation of continueInDialplan writes the
\* outcome variables and at most one asks the switch to continue
C35_FinalizedAtMostOnce ==
    /\ Cardinality(WroteOutcome) <= 1
    /\ Cardinality(AskedToContinue) <= 1

\* C36: no step taken after cleanup of the session has run to its end opens
\* a recognizer session, requests a play or the stop of a playback, starts
\* the finalization of the call or writes a channel variable
C36_QuietAfterCleanup ==
    [][cs.cl = "done" =>
          /\ sw'.sttOpens = sw.sttOpens
          /\ sw'.played = sw.played
          /\ sw'.stopRequests = sw.stopRequests
          /\ Len(cs'.fin) = Len(cs.fin)
          /\ sw'.chanVars = sw.chanVars]_vars

\* nothing created for the session is alive
AllReleased ==
    /\ ~sw.userBridgeUp /\ ~sw.snoopBridgeUp
    /\ ~sw.snoopUp /\ ~sw.extMediaUp
    /\ cs.rtpServer => rtp.closed

\* C37: once the channel has left the application, everything created for
\* the session, before or after cleanup started, is eventually released and
\* stays released
C37_ExitReleasesEverything == sw.stasisEndSeen ~> []AllReleased

\* C38: once the caller has started and stopped talking, the recognizer is
\* eventually asked to stop and the script is eventually continued
C38_VoiceEndFinalizes ==
    (cs.voiceStartSeen /\ sw.talkStarts = 1 /\ ~sw.talking)
        ~> (sw.recStopAsked /\ sw.continueCount > 0)

\* the same for a voice-end that arrives once the session is recognizing
C38_VoiceEndWhileRecognizingFinalizes ==
    (cs.ts = "recognizing" /\ sw.recStopAsked /\ ~sw.talking)
        ~> (sw.continueCount > 0)

\* C40: after listen has met a port in use, the receiver holds an open socket
\* that carries the constructor's handlers for 'message', 'error' and
\* 'listening', as a receiver bound on the first attempt does
C40_FallbackReceiverServes ==
    rtp.lastError = "EADDRINUSE"
        => (rtp.socket.ctor /\ rtp.socket.st \in {"binding", "bound"} /\ ~rtp.uncaught)

\* a receiver bound on the first attempt does serve
C40_FirstAttemptServes ==
    (rtp.lastError = "none" /\ rtp.socket.st = "bound")
        => (rtp.socket.ctor /\ rtp.address = sw.startPort)

Ahead(a, b) == LET d == (b - a + SeqSpace) % SeqSpace IN d > 0 /\ d < SeqSpace \div 2

StrictlyIncreasing(q) == \A i \in 1..(Len(q) - 1) : Ahead(q[i], q[i + 1])

LastN(q, n) == SubSeq(q, Len(q) - n + 1, Len(q))

\* C8: the frames the receiver delivers are in strictly increasing modular
\* sequence order (no frame twice, none backwards).  Stated for the case the
\* claim names: every packet was buffered before the first tick, so that no
\* packet is late and none is lost.
C8_DeliveredInModularOrder == ~rtp.lateArrival => StrictlyIncreasing(rtp.delivered)

\* C9: the pre-buffer never holds more than its capacity N; after
\* stopPreBufferingAndFlush it is empty, and when L >= N payloads were
\* received while pre-buffering the flush returned the concatenation of the
\* last N of them in arrival order.
C9_FlushReturnsLastN ==
    /\ Len(rtp.preBuffer) <= rtp.preBufferSize
    /\ rtp.flushed # NoFlush =>
         /\ rtp.preBuffer = <<>>
         /\ Len(rtp.preArrivals) >= rtp.preBufferSize =>
              rtp.flushed = Concat(LastN(rtp.preArrivals, rtp.preBufferSize))

\* C9 witness: a flush after more than N >= 1 payloads, so the oldest were evicted
C9_Witness ==
    /\ rtp.flushed # NoFlush
    /\ rtp.preBufferSize >= 1
    /\ Len(rtp.preArrivals) > rtp.preBufferSize
    /\ rtp.flushed # <<>>

\* Scenario S5: 100 and 101 delivered, 107 and 108 buffered, 102..106 absent
S5Waiting ==
    /\ rtp.delivered = <<100, 101>>
    /\ rtp.jitterBuffer = {107, 108}
    /\ rtp.lastPlayedSeq = 101

\* C10: in scenario S5 the first five consecutive missed ticks only count the
\* miss; the tick that follows them skips to 107 and logs one warning; the
\* next two ticks deliver 107 and then 108.
C10_SkipAfterFiveMisses ==
    [][ /\ (S5Waiting /\ rtp.missCount < 5 /\ JbPlay) =>
              /\ rtp'.lastPlayedSeq = 101
              /\ rtp'.missCount = rtp.missCount + 1
              /\ rtp'.warnings = rtp.warnings
              /\ rtp'.delivered = rtp.delivered
        /\ (S5Waiting /\ rtp.missCount = 5 /\ JbPlay) =>
              /\ rtp'.lastPlayedSeq = 106
              /\ rtp'.warnings = rtp.warnings + 1
              /\ rtp'.delivered = rtp.delivered
        /\ (rtp.delivered = <<100, 101>> /\ rtp.lastPlayedSeq = 106 /\ JbPlay) =>
              /\ rtp'.delivered = <<100, 101, 107>>
              /\ rtp'.warnings = rtp.warnings
        /\ (rtp.delivered = <<100, 101, 107>> /\ rtp.lastPlayedSeq = 107
                /\ 108 \in rtp.jitterBuffer /\ JbPlay) =>
              /\ rtp'.delivered = <<100, 101, 107, 108>>
              /\ rtp'.warnings = rtp.warnings
      ]_vars

\* C10 witness: the scenario ran to its end with exactly one warning
C10_Witness ==
    /\ rtp.delivered = <<100, 101, 107, 108>>
    /\ rtp.warnings = 1
    /\ rtp.arrivals = 4

====
